---- MODULE Spec2Model ----
(***************************************************************************)
(* parse_list (src/src/lib.rs): ParseListIterator<T, I> wraps an iterator  *)
(* I of Result<String, io::Error> and maps every item through              *)
(* str::parse::<T>.  The factories from_iter, from_bufread_lines,          *)
(* from_read_lines and from_file_lines build it; the last three put a      *)
(* Filter (nonblank) over BufRead::lines().                                *)
(*                                                                         *)
(* The target type T is instantiated as u32, as in the crate's tests.      *)
(* Text is a sequence of one-character strings.  The underlying producer   *)
(* is a script: the answer it gives to its 1st, 2nd, ... request, each     *)
(* None, Some(Ok(text)) or Some(Err(e)); past the end of the script it     *)
(* answers None.  A script may hold None before its end: Iterator does not *)
(* promise that a producer stays exhausted.                                *)
(***************************************************************************)
EXTENDS Integers, Sequences, FiniteSets, TLC

VARIABLES
    src,        \* the producer's script (I for from_iter, Lines<B> otherwise)
    entry,      \* the factory that was called, "none" before any call
    path,       \* the argument of from_file_lines, "-" otherwise
    result,     \* what the factory returned: "none", "Iterator" or "Err"
    inner,      \* field .0 of the ParseListIterator: "none", "I" or "Filter"
    requested,  \* how many items the producer has been asked for
    rets,       \* what each call of next() returned, oldest first
    parseLog    \* the calls of str::parse: [pull |-> k, text |-> t]

vars == <<src, entry, path, result, inner, requested, rets, parseLog>>

----------------------------------------------------------------------------
(* Bounds *)

MaxLen == 3      \* longest producer script
MaxPulls == 5    \* calls of next() on one adapter

----------------------------------------------------------------------------
(* Values *)

None == [tag |-> "None"]
OkLine(t) == [tag |-> "Ok", text |-> t]
ErrLine(e) == [tag |-> "Err", e |-> e]

OkItem(v) == [tag |-> "Ok", v |-> v]
ParseListError_Io(e) == [tag |-> "Io", e |-> e]
ParseListError_Parse(k) == [tag |-> "Parse", kind |-> k]

\* The line texts the producer may yield.
Texts ==
    { <<>>, <<" ">>, <<"0">>, <<"2">>, <<"2", "0">>, <<"+", "2">>,
      <<" ", "2">>, <<"2", " ">>, <<"b", "o", "o", "p">> }

IoErrors == {"NotFound", "InvalidData"}

Responses == {None} \cup {OkLine(t) : t \in Texts} \cup {ErrLine(e) : e \in IoErrors}

Scripts == UNION {[1..n -> Responses] : n \in 0..MaxLen}

\* The paths from_file_lines may be given; only "list" names a file.
Paths == {"list", "missing"}
ExistingFiles == {"list"}

----------------------------------------------------------------------------
(* str::trim, str::is_empty and u32::from_str *)

IsWhitespace(c) == c = " "

Digits == {"0", "1", "2", "3", "4", "5", "6", "7", "8", "9"}

DigitVal(c) ==
    CASE c = "0" -> 0 [] c = "1" -> 1 [] c = "2" -> 2 [] c = "3" -> 3
      [] c = "4" -> 4 [] c = "5" -> 5 [] c = "6" -> 6 [] c = "7" -> 7
      [] c = "8" -> 8 [] c = "9" -> 9

RECURSIVE trim_start(_)
trim_start(t) ==
    IF t # <<>> /\ IsWhitespace(Head(t)) THEN trim_start(Tail(t)) ELSE t

RECURSIVE trim_end(_)
trim_end(t) ==
    IF t # <<>> /\ IsWhitespace(t[Len(t)])
    THEN trim_end(SubSeq(t, 1, Len(t) - 1))
    ELSE t

trim(t) == trim_end(trim_start(t))

is_empty(t) == Len(t) = 0

RECURSIVE DecimalValue(_)
DecimalValue(t) ==
    IF t = <<>> THEN 0
    ELSE 10 * DecimalValue(SubSeq(t, 1, Len(t) - 1)) + DigitVal(t[Len(t)])

\* <u32 as FromStr>::from_str.  No text of Texts is long enough to overflow.
FromStr(t) ==
    LET digits == IF t # <<>> /\ Head(t) = "+" THEN Tail(t) ELSE t
    IN  IF t = <<>> THEN [tag |-> "Err", kind |-> "Empty"]
        ELSE IF digits = <<>> THEN [tag |-> "Err", kind |-> "InvalidDigit"]
        ELSE IF \E i \in 1..Len(digits) : digits[i] \notin Digits
             THEN [tag |-> "Err", kind |-> "InvalidDigit"]
        ELSE [tag |-> "Ok", v |-> DecimalValue(digits)]

----------------------------------------------------------------------------
(* The producer and the filter *)

\* The producer's answer to its (n+1)-th request.
SrcNext(s, n) == IF n + 1 <= Len(s) THEN s[n + 1] ELSE None

\* nonblank with unwrap_or(false): a failed read counts as blank.
nonblank_err_blank(lr) ==
    IF lr.tag = "Ok" THEN ~is_empty(trim(lr.text)) ELSE FALSE

\* fn nonblank(lr: &Result<String, io::Error>) -> bool
nonblank(lr) ==
    IF lr.tag = "Ok" THEN ~is_empty(trim(lr.text)) ELSE TRUE

\* Filter::next: ask the producer until an item passes the predicate or the
\* producer answers None.
RECURSIVE FilterNext(_, _)
FilterNext(s, n) ==
    LET x == SrcNext(s, n)
    IN  IF x = None THEN [item |-> None, requested |-> n + 1]
        ELSE IF nonblank(x) THEN [item |-> x, requested |-> n + 1]
        ELSE FilterNext(s, n + 1)

\* InnerNext advancing the producer twice per call.
InnerNext_skip(kind, s, n) ==
    IF kind = "Filter" THEN FilterNext(s, n)
    ELSE [item |-> SrcNext(s, n + 1), requested |-> n + 2]

\* self.0.next()
InnerNext(kind, s, n) ==
    IF kind = "Filter" THEN FilterNext(s, n)
    ELSE [item |-> SrcNext(s, n), requested |-> n + 1]

----------------------------------------------------------------------------
(* The adapter *)

\* string_result_to_item_result reporting a parse failure as an I/O failure.
string_result_to_item_result_as_io(v) ==
    IF v.tag = "Ok"
    THEN LET p == FromStr(v.text)
         IN  IF p.tag = "Ok" THEN OkItem(p.v) ELSE ParseListError_Io("InvalidData")
    ELSE ParseListError_Io(v.e)

\* string_result_to_item_result parsing the trimmed text.
string_result_to_item_result_trimmed(v) ==
    IF v.tag = "Ok"
    THEN LET p == FromStr(trim(v.text))
         IN  IF p.tag = "Ok" THEN OkItem(p.v) ELSE ParseListError_Parse(p.kind)
    ELSE ParseListError_Io(v.e)

string_result_to_item_result(v) ==
    IF v.tag = "Ok"
    THEN LET p == FromStr(v.text)
         IN  IF p.tag = "Ok" THEN OkItem(p.v) ELSE ParseListError_Parse(p.kind)
    ELSE ParseListError_Io(v.e)

\* ParserCalls with the parser also run, on an empty text, for a failed read.
ParserCalls_on_err(v) == IF v.tag = "Ok" THEN <<v.text>> ELSE << <<>> >>

\* ParserCalls with a rejected text parsed a second time.
ParserCalls_retry(v) ==
    IF v.tag = "Ok"
    THEN IF FromStr(v.text).tag = "Err" THEN <<v.text, v.text>> ELSE <<v.text>>
    ELSE <<>>

\* The texts string_result_to_item_result hands to str::parse for v.
ParserCalls(v) == IF v.tag = "Ok" THEN <<v.text>> ELSE <<>>

\* NextResult starting the producer over once it has answered None.
NextResult_rewind(kind, s, n) ==
    LET r == InnerNext(kind, s, n)
    IN  [ret |-> IF r.item = None THEN None
                 ELSE string_result_to_item_result(r.item),
         parsed |-> IF r.item = None THEN <<>> ELSE ParserCalls(r.item),
         requested |-> IF r.item = None THEN 0 ELSE r.requested]

\* One call of ParseListIterator::next with the producer at n.
NextResult(kind, s, n) ==
    LET r == InnerNext(kind, s, n)
    IN  [ret |-> IF r.item = None THEN None
                 ELSE string_result_to_item_result(r.item),
         parsed |-> IF r.item = None THEN <<>> ELSE ParserCalls(r.item),
         requested |-> r.requested]

\* Iterator::collect on an adapter with the producer at n: call next until
\* it returns None.
RECURSIVE collect(_, _, _)
collect(kind, s, n) ==
    LET r == NextResult(kind, s, n)
    IN  IF r.ret = None THEN <<>>
        ELSE <<r.ret>> \o collect(kind, s, r.requested)

File_open(p) == IF p \in ExistingFiles THEN "Ok" ELSE "Err"

----------------------------------------------------------------------------
(* Actions *)

Init ==
    /\ src \in Scripts
    /\ entry = "none"
    /\ path = "-"
    /\ result = "none"
    /\ inner = "none"
    /\ requested = 0
    /\ rets = <<>>
    /\ parseLog = <<>>

\* from_iter fetching the first item while it builds the adapter.
from_iter_eager ==
    /\ entry = "none"
    /\ entry' = "from_iter"
    /\ inner' = "I"
    /\ result' = "Iterator"
    /\ requested' = 1
    /\ UNCHANGED <<src, path, rets, parseLog>>

\* from_iter putting the nonblank filter over its argument.
from_iter_filtering ==
    /\ entry = "none"
    /\ entry' = "from_iter"
    /\ inner' = "Filter"
    /\ result' = "Iterator"
    /\ UNCHANGED <<src, path, requested, rets, parseLog>>

from_iter ==
    /\ entry = "none"
    /\ entry' = "from_iter"
    /\ inner' = "I"
    /\ result' = "Iterator"
    /\ UNCHANGED <<src, path, requested, rets, parseLog>>

from_bufread_lines ==
    /\ entry = "none"
    /\ entry' = "from_bufread_lines"
    /\ inner' = "Filter"
    /\ result' = "Iterator"
    /\ UNCHANGED <<src, path, requested, rets, parseLog>>

from_read_lines ==
    /\ entry = "none"
    /\ entry' = "from_read_lines"
    /\ inner' = "Filter"
    /\ result' = "Iterator"
    /\ UNCHANGED <<src, path, requested, rets, parseLog>>

\* from_file_lines returning an adapter whether or not the file opened.
from_file_lines_lazy ==
    /\ entry = "none"
    /\ \E p \in Paths :
        /\ path' = p
        /\ entry' = "from_file_lines"
        /\ inner' = "Filter"
        /\ result' = "Iterator"
    /\ UNCHANGED <<src, requested, rets, parseLog>>

from_file_lines ==
    /\ entry = "none"
    /\ \E p \in Paths :
        /\ path' = p
        /\ entry' = "from_file_lines"
        /\ IF File_open(p) = "Ok"
           THEN inner' = "Filter" /\ result' = "Iterator"
           ELSE inner' = "none" /\ result' = "Err"
    /\ UNCHANGED <<src, requested, rets, parseLog>>

next ==
    /\ result = "Iterator"
    /\ Len(rets) < MaxPulls
    /\ LET r == NextResult(inner, src, requested)
           k == Len(rets) + 1
       IN  /\ rets' = Append(rets, r.ret)
           /\ requested' = r.requested
           /\ parseLog' = parseLog \o
                  [i \in 1..Len(r.parsed) |-> [pull |-> k, text |-> r.parsed[i]]]
    /\ UNCHANGED <<src, entry, path, result, inner>>

Next ==
    \/ from_iter
    \/ from_bufread_lines
    \/ from_read_lines
    \/ from_file_lines
    \/ next

Spec == Init /\ [][Next]_vars

----------------------------------------------------------------------------
(* Vocabulary of the properties *)

Min(a, b) == IF a < b THEN a ELSE b

IsSome(r) == r # None

\* The Some(..) values of a sequence of Option values, in order.
Somes(rs) == SelectSeq(rs, IsSome)

\* Index of the first None of rs, Len(rs) + 1 when it has none.
FirstNone(rs) ==
    IF \E i \in 1..Len(rs) : rs[i] = None
    THEN CHOOSE i \in 1..Len(rs) :
            rs[i] = None /\ \A j \in 1..(i - 1) : rs[j] # None
    ELSE Len(rs) + 1

\* What a caller that pulls until the first None has received.
UntilExhausted(rs) == SubSeq(rs, 1, FirstNone(rs) - 1)

Exhausted == \E i \in 1..Len(rets) : rets[i] = None

\* The producer's answer to its k-th request, read off the script.
ScriptAt(k) == IF k \in 1..Len(src) THEN src[k] ELSE None

\* The number of Line Results the producer yields before end of input.
ProducerLen == FirstNone(src) - 1

\* A producer that, once it has answered None, answers None ever after.
Fused == \A i \in 1..Len(src) : src[i] = None =>
            \A j \in i..Len(src) : src[j] = None

BlankText(t) == \A i \in 1..Len(t) : t[i] = " "

BlankLine(r) == r.tag = "Ok" /\ BlankText(r.text)

InvalidLine(r) == r.tag = "Ok" /\ FromStr(r.text).tag = "Err"

SurroundedText(t) == t # <<>> /\ (t[1] = " " \/ t[Len(t)] = " ")

\* The Parsed Result that belongs to one Line Result.
Corresponds(line, item) ==
    \/ /\ line.tag = "Ok"
       /\ FromStr(line.text).tag = "Ok"
       /\ item.tag = "Ok"
       /\ item.v = FromStr(line.text).v
    \/ /\ line.tag = "Ok"
       /\ FromStr(line.text).tag = "Err"
       /\ item.tag = "Parse"
       /\ item.kind = FromStr(line.text).kind
    \/ /\ line.tag = "Err"
       /\ item.tag = "Io"
       /\ item.e = line.e

\* The part of the script the producer has handed out so far.
Consumed == SubSeq(src, 1, Min(requested, Len(src)))

\* The factories of the line-splitting path.
LineEntries == {"from_bufread_lines", "from_read_lines", "from_file_lines"}

KeptLine(r) == r # None /\ ~BlankLine(r)

\* The Line Results that have reached the adapter so far.
AdapterInput ==
    IF entry \in LineEntries THEN SelectSeq(Consumed, KeptLine)
    ELSE SelectSeq(Consumed, IsSome)

Count(seq, tag) == Cardinality({i \in 1..Len(seq) : seq[i].tag = tag})

CountNone(seq) == Cardinality({i \in 1..Len(seq) : seq[i] = None})

\* The elements of a whose line in the script is not a blank Ok line.
WithoutBlankPositions(a) ==
    LET idx == SelectSeq([i \in 1..Len(a) |-> i], LAMBDA i : ~BlankLine(ScriptAt(i)))
    IN  [j \in 1..Len(idx) |-> a[idx[j]]]

----------------------------------------------------------------------------
(* Properties *)

\* C1: an adapter built by from_iter over a producer of N Line Results,
\* pulled until exhaustion, yields exactly N Parsed Results, the i-th being
\* the one that belongs to the i-th Line Result.
C1_OneResultPerLine ==
    entry = "from_iter" =>
        LET out == UntilExhausted(rets)
        IN  /\ Len(out) <= ProducerLen
            /\ Exhausted => Len(out) = ProducerLen
            /\ \A i \in 1..Len(out) : Corresponds(ScriptAt(i), out[i])

C1_Witness ==
    /\ entry = "from_iter"
    /\ Exhausted
    /\ ProducerLen = 3
    /\ Len(UntilExhausted(rets)) = 3
    /\ \A i \in 1..3 : rets[i].tag = "Ok" /\ rets[i].v = FromStr(src[i].text).v

\* C2: a line the parser rejects gives a Parse failure at exactly its own
\* position, every other position keeps its own result, and no pull reports
\* exhaustion unless the producer did.
C2_ParseFailureIsLocal ==
    LET out == Somes(rets)
        inp == AdapterInput
    IN  /\ Len(out) = Len(inp)
        /\ \A k \in 1..Len(out) :
              /\ InvalidLine(inp[k]) <=> out[k].tag = "Parse"
              /\ InvalidLine(inp[k]) => out[k].kind = FromStr(inp[k].text).kind
              /\ ~InvalidLine(inp[k]) => Corresponds(inp[k], out[k])
        /\ CountNone(rets) = CountNone([i \in 1..requested |-> ScriptAt(i)])

C2_Witness ==
    /\ Len(src) = 3
    /\ Len(rets) = 3
    /\ rets[1].tag = "Ok"
    /\ rets[2].tag = "Parse"
    /\ rets[3].tag = "Ok"
    /\ src[2] = OkLine(<<"b", "o", "o", "p">>)

\* C3: an I/O failure of the producer at position k gives Io at position k
\* with the same error, the parser is not called for that pull, and the
\* next pull gives what belongs to the producer's next answer.
C3_IoFailureIsLocal ==
    /\ \A j \in 1..Len(rets) :
          rets[j].tag = "Io" => \A i \in 1..Len(parseLog) : parseLog[i].pull # j
    /\ entry = "from_iter" =>
          \A k \in 1..Len(rets) :
              /\ ScriptAt(k).tag = "Err" <=> rets[k].tag = "Io"
              /\ ScriptAt(k).tag = "Err" => rets[k].e = ScriptAt(k).e
              /\ (k > 1 /\ ScriptAt(k - 1).tag = "Err") =>
                    \/ ScriptAt(k) = None /\ rets[k] = None
                    \/ ScriptAt(k) # None /\ Corresponds(ScriptAt(k), rets[k])

C3_Witness ==
    /\ entry = "from_iter"
    /\ src = <<OkLine(<<"0">>), ErrLine("NotFound"), OkLine(<<"2">>)>>
    /\ rets = <<OkItem(0), ParseListError_Io("NotFound"), OkItem(2)>>
    /\ [i \in 1..Len(parseLog) |-> parseLog[i].pull] = <<1, 3>>

\* C4: behind from_bufread_lines a blank Ok line gives no element, every
\* other Ok line and every Err line gives exactly one, in order.
C4_BlankLinesDropped ==
    entry \in LineEntries =>
        LET out == Somes(rets)
            kept == SelectSeq(Consumed, KeptLine)
        IN  /\ Len(out) = Len(kept)
            /\ \A i \in 1..Len(out) : Corresponds(kept[i], out[i])
            /\ Count(out, "Io") = Count(Consumed, "Err")
            /\ (\A i \in 1..Len(Consumed) : Consumed[i] = None \/ BlankLine(Consumed[i]))
                  => out = <<>>

C4_Witness ==
    /\ entry = "from_bufread_lines"
    /\ Exhausted
    /\ Len(src) = 3
    /\ BlankLine(src[1])
    /\ src[2].tag = "Err"
    /\ src[3].tag = "Ok" /\ ~BlankLine(src[3])
    /\ Len(Somes(rets)) = 2
    /\ rets[1].tag = "Io"

\* C5: building with from_iter asks the producer for nothing and calls the
\* parser zero times; after k pulls the producer has been asked k times.
C5_LazyConstruction ==
    entry = "from_iter" =>
        /\ requested = Len(rets)
        /\ rets = <<>> => parseLog = <<>>
        /\ \A i \in 1..Len(parseLog) : parseLog[i].pull \in 1..Len(rets)

C5_Witness ==
    /\ entry = "from_iter"
    /\ Len(rets) = 3
    /\ requested = 3
    /\ Len(src) = 3

\* C6 as stated: once a pull has returned None, every later pull returns
\* None, whatever the producer.
C6_ExhaustionTerminal ==
    \A i \in 1..Len(rets) : rets[i] = None =>
        \A j \in i..Len(rets) : rets[j] = None

\* C6 amended: the same, for a producer that stays exhausted.
C6_ExhaustionTerminalWhenFused ==
    Fused => \A i \in 1..Len(rets) : rets[i] = None =>
                \A j \in i..Len(rets) : rets[j] = None

C6_Witness ==
    /\ Fused
    /\ Len(src) = 2
    /\ src[1] # None /\ src[2] # None
    /\ Len(rets) >= 4
    /\ rets[Len(rets) - 1] = None
    /\ rets[Len(rets)] = None
    /\ rets[1] # None

\* C7: from_file_lines on a path that cannot be opened returns Err and no
\* adapter, and nothing is read or parsed; on a path that opens it returns
\* an adapter, and keeps that result whatever its elements turn out to be.
C7_OpenFailureIsEager ==
    entry = "from_file_lines" =>
        /\ path \notin ExistingFiles =>
              /\ result = "Err"
              /\ inner = "none"
              /\ requested = 0 /\ rets = <<>> /\ parseLog = <<>>
        /\ path \in ExistingFiles =>
              /\ result = "Iterator"
              /\ inner = "Filter"
              /\ rets = <<>> => requested = 0 /\ parseLog = <<>>

C7_Witness ==
    /\ entry = "from_file_lines"
    /\ path = "missing"
    /\ result = "Err"
    /\ src # <<>>

\* C8: the parser is called exactly once for each Ok line that reached the
\* adapter and never for an Err line, every line handed out by the producer
\* is accounted for once, and each failure shows once in the output.
C8_NoRetry ==
    LET out == Somes(rets)
        inp == AdapterInput
        oks == SelectSeq(inp, LAMBDA r : r.tag = "Ok")
    IN  /\ [i \in 1..Len(parseLog) |-> parseLog[i].text]
              = [i \in 1..Len(oks) |-> oks[i].text]
        /\ \A i, j \in 1..Len(parseLog) : i < j => parseLog[i].pull < parseLog[j].pull
        /\ Len(out) = Len(inp)
        /\ Count(out, "Io") = Count(inp, "Err")
        /\ Count(out, "Parse") = Cardinality({i \in 1..Len(inp) : InvalidLine(inp[i])})
        /\ entry = "from_iter" => requested = Len(rets)

C8_Witness ==
    /\ Len(src) = 3
    /\ Len(rets) = 4
    /\ rets[1].tag = "Parse"
    /\ rets[2].tag = "Io"
    /\ rets[3].tag = "Ok"
    /\ rets[4] = None
    /\ Len(parseLog) = 2

\* C9: behind the filter, a kept line with leading or trailing whitespace
\* is parsed untrimmed: its element is what the parser returns for the
\* whole text, for u32 a Parse failure.
C9_ParsedUntrimmed ==
    entry \in LineEntries =>
        LET out == Somes(rets)
            kept == SelectSeq(Consumed, KeptLine)
        IN  \A k \in 1..Min(Len(out), Len(kept)) :
                (kept[k].tag = "Ok" /\ SurroundedText(kept[k].text)) =>
                    /\ ~BlankText(kept[k].text)
                    /\ Corresponds(kept[k], out[k])
                    /\ out[k] = ParseListError_Parse("InvalidDigit")
                    /\ \E i \in 1..Len(parseLog) : parseLog[i].text = kept[k].text

C9_Witness ==
    /\ entry = "from_read_lines"
    /\ Len(src) >= 2
    /\ Len(rets) >= 2
    /\ src[1] = OkLine(<<" ", "2">>)
    /\ src[2] = OkLine(<<"2", " ">>)
    /\ rets[1].tag = "Parse"
    /\ rets[2].tag = "Parse"

\* C10: from_iter filters nothing: a blank Ok line gives one element, so
\* over the same lines from_iter yields as many more elements than
\* from_bufread_lines as there are blank Ok lines, and the two agree once
\* the elements of the blank lines are removed.
C10_FromIterKeepsBlankLines ==
    LET blanks == Cardinality({i \in 1..ProducerLen : BlankLine(src[i])})
    IN  /\ (entry = "from_iter" /\ Exhausted) =>
              LET a == UntilExhausted(rets)
                  b == collect("Filter", src, 0)
              IN  /\ Len(a) = Len(b) + blanks
                  /\ WithoutBlankPositions(a) = b
                  /\ \A i \in 1..Len(a) :
                        BlankLine(ScriptAt(i)) => Corresponds(ScriptAt(i), a[i])
        /\ (entry \in LineEntries /\ Exhausted) =>
              LET a == collect("I", src, 0)
                  b == UntilExhausted(rets)
              IN  /\ Len(a) = Len(b) + blanks
                  /\ WithoutBlankPositions(a) = b

C10_Witness ==
    /\ entry = "from_iter"
    /\ Exhausted
    /\ ProducerLen = 3
    /\ BlankLine(src[2])
    /\ ~BlankLine(src[1]) /\ ~BlankLine(src[3])
    /\ Len(UntilExhausted(rets)) = 3
    /\ Len(collect("Filter", src, 0)) = 2

====
